---- MODULE Spec2Model ----
(***************************************************************************)
(* Model of src/rust/src/main.rs: the Miner -> Trader payment pipeline     *)
(* against a Bitcoin Core regtest node.  The pipeline is one sequential    *)
(* thread (main); the node is the environment: every RPC may fail, the     *)
(* balances it reports are free, a block may or may not include the        *)
(* pending payment, and another actor may mine the pending payment.        *)
(* Amounts are integer satoshis (bitcoin::Amount).                         *)
(***************************************************************************)
EXTENDS Integers, Sequences, FiniteSets, TLC

\* ------------------------------------------------------------------ bounds
MaxAmt == 1          \* output / input amounts of audited transactions: 0..MaxAmt sat
MaxOuts == 2         \* outputs of an audited transaction
MaxIns == 1          \* inputs of an audited transaction
MaxPrevOuts == 1     \* outputs of the prior transaction the first input refers to
MaxBalance == 1      \* balances the node reports: 0..MaxBalance sat
MaxFee == 1          \* fee of the payment the wallet builds: 0..MaxFee sat

\* ------------------------------------------------------- program constants
CoinbaseMaturity == 100
max_blocks == 150            \* main.rs:99
COIN == 100000000            \* satoshis per BTC (Amount::from_btc / to_btc)
PayBtc == 20                 \* main.rs:131
OutLines == 10               \* main.rs:259-268, ten writeln! calls

WalletNames == {"Miner", "Trader"}
amount_to_sendOff == (PayBtc \div 10) * COIN
amount_to_send == PayBtc * COIN

\* ------------------------------------------------------------- node values
TxId == "txid_payment"
PrevTxId == "txid_funding"
MinerAddress == "addr_mining_reward"
TraderAddress == "addr_received"
TraderScript == "spk_trader"
MinerScript == "spk_miner"
Scripts == {TraderScript, "spk_change", "spk_other"}
Amounts == 0 .. MaxAmt
NoVal == [none |-> TRUE]
NoFile == [created |-> FALSE, lines |-> <<>>]

\* Address::script_pubkey() of the addresses the node hands out
ScriptPubkey(addr) == IF addr = TraderAddress THEN TraderScript ELSE MinerScript

\* format!("{:?}", script): the Debug rendering of a script
DebugFmt(script) == <<"Script(", script, ")">>

\* BlockHash of the block at a height, and its to_string()
BlockHashAt(h) == [block |-> h]
HashToString(bh) == <<"hex", bh.block>>

CallKinds == {"get_blockchain_info", "list_wallets", "create_wallet", "get_new_address",
              "generate_to_address", "get_balance", "send_to_address", "get_raw_mempool",
              "get_mempool_entry", "get_raw_transaction_info", "get_prev_transaction_info",
              "get_block_info"}

NoErr == [kind |-> "none", stage |-> "none"]
Error(kind, stage) == [kind |-> kind, stage |-> stage]

VARIABLES
    pc,             \* position of main
    err,            \* the Err main returned, NoErr while running or on Ok
    calls,          \* node calls issued so far, per RPC
    wallets,        \* node: loaded wallets
    height,         \* node: blocks in the chain
    mempool,        \* node: pending transaction ids
    txBlock,        \* node: height of the block holding TxId, 0 while unconfirmed
    nodeTx,         \* node: the transaction stored under TxId
    nodePrev,       \* node: outputs of the transaction stored under PrevTxId
    miner_address,  \* main.rs:91
    blocks_mined,   \* main.rs:98
    balance,        \* main.rs:111, 0 until the first observation
    trader_address, \* main.rs:125
    txid,           \* main.rs:134
    in_mempool,     \* main.rs:148, "Found" / "NotFound" once looked up
    raw,            \* main.rs:181
    prev_tx,        \* main.rs:191
    rec,            \* main.rs:198-236, the fields written to out.txt
    file            \* out.txt: whether File::create succeeded, and the lines written

vars == <<pc, err, calls, wallets, height, mempool, txBlock, nodeTx, nodePrev,
          miner_address, blocks_mined, balance, trader_address, txid, in_mempool,
          raw, prev_tx, rec, file>>

nodeVars == <<wallets, height, mempool, txBlock, nodeTx, nodePrev>>
localVars == <<miner_address, blocks_mined, balance, trader_address, txid, in_mempool,
               raw, prev_tx, rec, file>>

\* ------------------------------------------------------------------ helpers
Call(kind) == calls' = [calls EXCEPT ![kind] = @ + 1]

TotalCalls(c) ==
    c["get_blockchain_info"] + c["list_wallets"] + c["create_wallet"] + c["get_new_address"]
    + c["generate_to_address"] + c["get_balance"] + c["send_to_address"] + c["get_raw_mempool"]
    + c["get_mempool_entry"] + c["get_raw_transaction_info"] + c["get_prev_transaction_info"]
    + c["get_block_info"]

\* the `?` on a failed call: main returns the error
Fail(kind, stage) ==
    /\ pc' = "failed"
    /\ err' = Error(kind, stage)

\* a node call that returns Err: nothing else changes
RpcFailsOff(kind, stage) ==
    /\ Call(kind)
    /\ err' = Error("Rpc", stage)
    /\ UNCHANGED <<pc, nodeVars, localVars>>
RpcFails(kind, stage) ==
    /\ Call(kind)
    /\ Fail("Rpc", stage)
    /\ UNCHANGED <<nodeVars, localVars>>

\* ------------------------------------------------------------------ initial
Init ==
    /\ pc = "blockchain_info"
    /\ err = NoErr
    /\ calls = [k \in CallKinds |-> 0]
    /\ wallets \in SUBSET WalletNames
    /\ height = 0
    /\ mempool = {}
    /\ txBlock = 0
    /\ nodeTx = NoVal
    /\ nodePrev = <<>>
    /\ miner_address = "none"
    /\ blocks_mined = 0
    /\ balance = 0
    /\ trader_address = "none"
    /\ txid = "none"
    /\ in_mempool = "none"
    /\ raw = NoVal
    /\ prev_tx = NoVal
    /\ rec = NoVal
    /\ file = NoFile

\* ------------------------------------------------------------ wallet set-up
\* main.rs:55
GetBlockchainInfo ==
    /\ pc = "blockchain_info"
    /\ \/ RpcFails("get_blockchain_info", "blockchain_info")
       \/ /\ Call("get_blockchain_info")
          /\ pc' = "ensure_Miner"
          /\ UNCHANGED <<err, nodeVars, localVars>>

\* main.rs:60-61, 64-67: list the wallets, done when the name is among them
EnsureListOff(name, next) ==
    /\ pc = "ensure_" \o name
    /\ \/ RpcFails("list_wallets", "ensure_" \o name)
       \/ /\ Call("list_wallets")
          /\ pc' = "create_" \o name
          /\ UNCHANGED <<err, nodeVars, localVars>>
EnsureList(name, next) ==
    /\ pc = "ensure_" \o name
    /\ \/ RpcFails("list_wallets", "ensure_" \o name)
       \/ /\ Call("list_wallets")
          /\ pc' = IF name \in wallets THEN next ELSE "create_" \o name
          /\ UNCHANGED <<err, nodeVars, localVars>>

\* main.rs:62-63, 67
EnsureCreate(name, next) ==
    /\ pc = "create_" \o name
    /\ \/ RpcFails("create_wallet", "create_" \o name)
       \/ /\ Call("create_wallet")
          /\ wallets' = wallets \cup {name}
          /\ pc' = next
          /\ UNCHANGED <<err, height, mempool, txBlock, nodeTx, nodePrev, localVars>>

\* main.rs:91-93: get_new_address, then require_network
GetMinerAddress ==
    /\ pc = "miner_address"
    /\ \/ RpcFails("get_new_address", "miner_address")
       \/ /\ Call("get_new_address")
          /\ Fail("Network", "miner_address")
          /\ UNCHANGED <<nodeVars, localVars>>
       \/ /\ Call("get_new_address")
          /\ miner_address' = MinerAddress
          /\ pc' = "mature"
          /\ UNCHANGED <<err, nodeVars, blocks_mined, balance, trader_address, txid,
                         in_mempool, raw, prev_tx, rec, file>>

\* --------------------------------------------------------------- the node
\* generatetoaddress on the node: one more block, which may take the pending
\* payment with it ("expected, not guaranteed")
MineBlock ==
    /\ height' = height + 1
    /\ \/ /\ TxId \in mempool
          /\ mempool' = mempool \ {TxId}
          /\ txBlock' = height + 1
       \/ UNCHANGED <<mempool, txBlock>>
    /\ UNCHANGED <<wallets, nodeTx, nodePrev>>

\* another actor of the shared node mines a block that takes the pending payment
OtherMiner ==
    /\ TxId \in mempool
    /\ height' = height + 1
    /\ mempool' = mempool \ {TxId}
    /\ txBlock' = height + 1
    /\ UNCHANGED <<pc, err, calls, wallets, nodeTx, nodePrev, localVars>>

\* the payments the Miner wallet builds for send_to_address: one funding input,
\* the payee output and, when there is change, a change output in either place
Payee == [value |-> amount_to_send, script_pubkey |-> TraderScript]
Change(c) == [value |-> c, script_pubkey |-> "spk_change"]
SendOutputs(c) ==
    IF c = 0 THEN {<<Payee>>} ELSE {<<Payee, Change(c)>>, <<Change(c), Payee>>}
Funding(c, f) == <<[value |-> amount_to_send + c + f, script_pubkey |-> MinerScript]>>

\* getrawtransaction (verbose) of the payment
RawReply == [tx |-> nodeTx,
             blockhash |-> IF txBlock = 0 THEN NoVal ELSE BlockHashAt(txBlock)]

\* ------------------------------------------------------------- maturation
\* main.rs:103
CeilingReachedOff(n) == n > max_blocks
CeilingReachedEarly(n) == n + 1 >= max_blocks
CeilingReached(n) == n >= max_blocks

\* main.rs:114, balance.to_btc() > 0.0 of an unsigned satoshi amount
SpendableOff(b) == b >= 0
Spendable(b) == b > 0

\* main.rs:103-108
MatureMineOff ==
    /\ pc = "mature"
    /\ IF CeilingReached(blocks_mined)
       THEN /\ Fail("MaturationTimeout", "mature")
            /\ UNCHANGED <<calls, nodeVars, localVars>>
       ELSE IF calls["get_balance"] = 0
       THEN /\ pc' = "mature_balance"
            /\ UNCHANGED <<err, calls, nodeVars, localVars>>
       ELSE \/ RpcFails("generate_to_address", "mature")
            \/ /\ Call("generate_to_address")
               /\ MineBlock
               /\ blocks_mined' = blocks_mined + 1
               /\ pc' = "mature_balance"
               /\ UNCHANGED <<err, miner_address, balance, trader_address, txid,
                              in_mempool, raw, prev_tx, rec, file>>
MatureMine ==
    /\ pc = "mature"
    /\ IF CeilingReached(blocks_mined)
       THEN /\ Fail("MaturationTimeout", "mature")
            /\ UNCHANGED <<calls, nodeVars, localVars>>
       ELSE \/ RpcFails("generate_to_address", "mature")
            \/ /\ Call("generate_to_address")
               /\ MineBlock
               /\ blocks_mined' = blocks_mined + 1
               /\ pc' = "mature_balance"
               /\ UNCHANGED <<err, miner_address, balance, trader_address, txid,
                              in_mempool, raw, prev_tx, rec, file>>

\* main.rs:111-120
MatureBalance ==
    /\ pc = "mature_balance"
    /\ \/ RpcFails("get_balance", "mature_balance")
       \/ /\ Call("get_balance")
          /\ \E b \in 0 .. MaxBalance :
                /\ balance' = b
                /\ pc' = IF Spendable(b) THEN "trader_address" ELSE "mature"
          /\ UNCHANGED <<err, nodeVars, miner_address, blocks_mined, trader_address, txid,
                         in_mempool, raw, prev_tx, rec, file>>

\* ---------------------------------------------------------------- payment
\* main.rs:125-127
GetTraderAddress ==
    /\ pc = "trader_address"
    /\ \/ RpcFails("get_new_address", "trader_address")
       \/ /\ Call("get_new_address")
          /\ Fail("Network", "trader_address")
          /\ UNCHANGED <<nodeVars, localVars>>
       \/ /\ Call("get_new_address")
          /\ trader_address' = TraderAddress
          /\ pc' = "send"
          /\ UNCHANGED <<err, nodeVars, miner_address, blocks_mined, balance, txid,
                         in_mempool, raw, prev_tx, rec, file>>

\* main.rs:131-143
SendToAddress ==
    /\ pc = "send"
    /\ \/ RpcFails("send_to_address", "send")
       \/ /\ Call("send_to_address")
          /\ \E c \in Amounts, f \in 0 .. MaxFee :
                /\ nodeTx' \in [input : {<<[txid |-> PrevTxId, vout |-> 0]>>},
                                output : SendOutputs(c)]
                /\ nodePrev' = Funding(c, f)
          /\ mempool' = mempool \cup {TxId}
          /\ txid' = TxId
          /\ pc' = "mempool"
          /\ UNCHANGED <<err, wallets, height, txBlock, miner_address, blocks_mined, balance,
                         trader_address, in_mempool, raw, prev_tx, rec, file>>

\* ----------------------------------------------------- mempool, confirmation
\* main.rs:147-149, 153-155
GetRawMempool ==
    /\ pc = "mempool"
    /\ \/ RpcFails("get_raw_mempool", "mempool")
       \/ /\ Call("get_raw_mempool")
          /\ IF txid \in mempool
             THEN in_mempool' = "Found" /\ pc' = "mempool_entry"
             ELSE in_mempool' = "NotFound" /\ pc' = "confirm"
          /\ UNCHANGED <<err, nodeVars, miner_address, blocks_mined, balance, trader_address,
                         txid, raw, prev_tx, rec, file>>

\* main.rs:151-152; getmempoolentry is an error for a transaction that is not pending
GetMempoolEntryOff ==
    /\ pc = "mempool_entry"
    /\ \/ RpcFails("get_mempool_entry", "mempool_entry")
       \/ /\ txid \in mempool
          /\ Call("get_mempool_entry")
          /\ pc' = "get_tx"
          /\ UNCHANGED <<err, nodeVars, localVars>>
GetMempoolEntry ==
    /\ pc = "mempool_entry"
    /\ \/ RpcFails("get_mempool_entry", "mempool_entry")
       \/ /\ txid \in mempool
          /\ Call("get_mempool_entry")
          /\ pc' = "confirm"
          /\ UNCHANGED <<err, nodeVars, localVars>>

\* main.rs:177-178
ConfirmOff ==
    /\ pc = "confirm"
    /\ \/ RpcFails("generate_to_address", "confirm")
       \/ /\ Call("generate_to_address")
          /\ MineBlock
          /\ pc' = IF TxId \in mempool' THEN "confirm" ELSE "get_tx"
          /\ UNCHANGED <<err, localVars>>
Confirm ==
    /\ pc = "confirm"
    /\ \/ RpcFails("generate_to_address", "confirm")
       \/ /\ Call("generate_to_address")
          /\ MineBlock
          /\ pc' = "get_tx"
          /\ UNCHANGED <<err, localVars>>

\* ------------------------------------------------------------------ audit
EmptyString == <<>>          \* String::new()

\* main.rs:185
NoInputsOff(tx) == FALSE
NoInputs(tx) == Len(tx.input) = 0

\* main.rs:193
InvalidReference(vout, input_vout) == Len(vout) <= input_vout

\* main.rs:213-217: the output's script against the Trader address's script,
\* both in their Debug rendering
IsTraderOff(output, address) == FALSE
IsTraderAll(output, address) == TRUE
IsTrader(output, address) ==
    DebugFmt(output.script_pubkey) = DebugFmt(ScriptPubkey(address))

\* main.rs:204-207
NoOutputs == [trader_output_address |-> EmptyString, trader_output_amount |-> 0,
              miner_change_address |-> EmptyString, miner_change_amount |-> 0]

\* main.rs:211-223, the body of the loop over the outputs
ClassifyOutputSum(acc, output, address) ==
    IF IsTrader(output, address)
    THEN [acc EXCEPT !.trader_output_address = DebugFmt(output.script_pubkey),
                     !.trader_output_amount = output.value]
    ELSE [acc EXCEPT !.miner_change_address = DebugFmt(output.script_pubkey),
                     !.miner_change_amount = @ + output.value]
ClassifyOutput(acc, output, address) ==
    IF IsTrader(output, address)
    THEN [acc EXCEPT !.trader_output_address = DebugFmt(output.script_pubkey),
                     !.trader_output_amount = output.value]
    ELSE [acc EXCEPT !.miner_change_address = DebugFmt(output.script_pubkey),
                     !.miner_change_amount = output.value]

\* main.rs:210-224, the outputs 1..n in order
RECURSIVE Classify(_, _, _)
Classify(output, n, address) ==
    IF n = 0 THEN NoOutputs
    ELSE ClassifyOutput(Classify(output, n - 1, address), output[n], address)

\* main.rs:227
TotalOutputOff(output, n) == IF n = 0 THEN 0 ELSE output[n].value
RECURSIVE TotalOutput(_, _)
TotalOutput(output, n) ==
    IF n = 0 THEN 0 ELSE TotalOutput(output, n - 1) + output[n].value

\* main.rs:228-230, checked_sub(..).unwrap_or(Amount::ZERO)
FeeOff(input_amount, total_output) == input_amount - total_output
Fee(input_amount, total_output) ==
    IF input_amount >= total_output THEN input_amount - total_output ELSE 0

\* main.rs:196-230: the eight fields known before the block is looked up
Fields(tx, prev_output, address) ==
    LET c == Classify(tx.output, Len(tx.output), address)
    IN [txid |-> txid,
        miner_input_address |-> DebugFmt(prev_output.script_pubkey),
        miner_input_amount |-> prev_output.value,
        trader_output_address |-> c.trader_output_address,
        trader_output_amount |-> c.trader_output_amount,
        miner_change_address |-> c.miner_change_address,
        miner_change_amount |-> c.miner_change_amount,
        fee |-> Fee(prev_output.value, TotalOutput(tx.output, Len(tx.output)))]

\* main.rs:181-187: fetch the payment, decode it, refuse one without inputs
AuditGetTx ==
    /\ pc = "get_tx"
    /\ \/ RpcFails("get_raw_transaction_info", "get_tx")
       \/ /\ Call("get_raw_transaction_info")
          /\ raw' = RawReply
          /\ \/ Fail("Decode", "get_tx")
             \/ IF NoInputs(raw'.tx)
                THEN Fail("NoInputs", "get_tx")
                ELSE pc' = "get_prev" /\ UNCHANGED err
          /\ UNCHANGED <<nodeVars, miner_address, blocks_mined, balance, trader_address,
                         txid, in_mempool, prev_tx, rec, file>>

\* main.rs:189-233: fetch the funding transaction of the first input, resolve the
\* reference, classify the outputs, compute the fee, then require the block hash
AuditGetPrev ==
    /\ pc = "get_prev"
    /\ \/ RpcFails("get_prev_transaction_info", "get_prev")
       \/ /\ Call("get_prev_transaction_info")
          /\ prev_tx' = [vout |-> nodePrev]
          /\ LET input_vout == raw.tx.input[1].vout
             IN IF InvalidReference(prev_tx'.vout, input_vout)
                THEN Fail("InvalidRef", "get_prev") /\ UNCHANGED rec
                ELSE IF raw.blockhash = NoVal
                THEN Fail("Unconfirmed", "get_prev") /\ UNCHANGED rec
                ELSE /\ rec' = Fields(raw.tx, prev_tx'.vout[input_vout + 1], trader_address)
                     /\ pc' = "get_block"
                     /\ UNCHANGED err
          /\ UNCHANGED <<nodeVars, miner_address, blocks_mined, balance, trader_address,
                         txid, in_mempool, raw, file>>

\* main.rs:234-236
AuditGetBlockOff ==
    /\ pc = "get_block"
    /\ Call("get_block_info")
    /\ pc' = "create_file"
    /\ UNCHANGED <<err, nodeVars, localVars>>
AuditGetBlock ==
    /\ pc = "get_block"
    /\ \/ RpcFails("get_block_info", "get_block")
       \/ /\ Call("get_block_info")
          /\ rec' = rec @@ [block_height |-> raw.blockhash.block,
                            block_hash |-> HashToString(raw.blockhash)]
          /\ pc' = "create_file"
          /\ UNCHANGED <<err, nodeVars, miner_address, blocks_mined, balance, trader_address,
                         txid, in_mempool, raw, prev_tx, file>>

\* ----------------------------------------------------------------- out.txt
\* the decimal digits of n, most significant first, in exactly w places
RECURSIVE Digits(_, _)
Digits(n, w) == IF w = 0 THEN <<>> ELSE Append(Digits(n \div 10, w - 1), n % 10)

RECURSIVE StripZeros(_)
StripZeros(d) ==
    IF d # <<>> /\ d[Len(d)] = 0 THEN StripZeros(SubSeq(d, 1, Len(d) - 1)) ELSE d

\* "{}" of amount.to_btc(): Display of the f64 sat / 10^8 prints the shortest
\* decimal that reads back, the whole part and the fraction without trailing zeros
DisplayBtc(sat) == [whole |-> sat \div COIN, frac |-> StripZeros(Digits(sat % COIN, 8))]

\* main.rs:259-268
Line(r, k) ==
    CASE k = 1 -> r.txid
      [] k = 2 -> r.miner_input_address
      [] k = 3 -> DisplayBtc(r.miner_input_amount)
      [] k = 4 -> r.trader_output_address
      [] k = 5 -> DisplayBtc(r.trader_output_amount)
      [] k = 6 -> r.miner_change_address
      [] k = 7 -> DisplayBtc(r.miner_change_amount)
      [] k = 8 -> DisplayBtc(r.fee)
      [] k = 9 -> r.block_height
      [] k = 10 -> r.block_hash

\* main.rs:258
CreateFile ==
    /\ pc = "create_file"
    /\ \/ /\ Fail("Io", "create_file")
          /\ UNCHANGED file
       \/ /\ file' = [created |-> TRUE, lines |-> <<>>]
          /\ pc' = "write"
          /\ UNCHANGED err
    /\ UNCHANGED <<calls, nodeVars, miner_address, blocks_mined, balance, trader_address,
                   txid, in_mempool, raw, prev_tx, rec>>

\* main.rs:259-272, one writeln! at a time
WriteLine ==
    /\ pc = "write"
    /\ \/ /\ Fail("Io", "write")
          /\ UNCHANGED file
       \/ /\ file' = [file EXCEPT !.lines = Append(@, Line(rec, Len(@) + 1))]
          /\ pc' = IF Len(file'.lines) = OutLines THEN "done" ELSE "write"
          /\ UNCHANGED err
    /\ UNCHANGED <<calls, nodeVars, miner_address, blocks_mined, balance, trader_address,
                   txid, in_mempool, raw, prev_tx, rec>>

\* ------------------------------------------------------------ specification
\* main, main.rs:45-290: one blocking step after the other
Main ==
    \/ GetBlockchainInfo
    \/ EnsureList("Miner", "ensure_Trader")
    \/ EnsureCreate("Miner", "ensure_Trader")
    \/ EnsureList("Trader", "miner_address")
    \/ EnsureCreate("Trader", "miner_address")
    \/ GetMinerAddress
    \/ MatureMine
    \/ MatureBalance
    \/ GetTraderAddress
    \/ SendToAddress
    \/ GetRawMempool
    \/ GetMempoolEntry
    \/ Confirm
    \/ AuditGetTx
    \/ AuditGetPrev
    \/ AuditGetBlock
    \/ CreateFile
    \/ WriteLine

Next == Main \/ OtherMiner

Spec == Init /\ [][Next]_vars

\* every node call returns, so main always takes its next step
FairSpec == Spec /\ WF_vars(Main)

\* --------------------------------------------- the audit on any transaction
\* The node answers getrawtransaction with whatever it stores under the id: the
\* audit (main.rs:181-272) is explored over every stored payment and funding
\* transaction within the bounds, confirmed or not, from main's state at line 181.
TxOuts(amounts, scripts, max) ==
    UNION {[1 .. n -> [value : amounts, script_pubkey : scripts]] : n \in 0 .. max}
\* only the first input's reference is resolved (main.rs:189-190): it points
\* anywhere, the further inputs spend output 0 of the funding transaction
TxIns ==
    {<<>>} \cup {[i \in 1 .. n |-> [txid |-> PrevTxId, vout |-> IF i = 1 THEN v ELSE 0]] :
                    n \in 1 .. MaxIns, v \in 0 .. MaxPrevOuts}
AuditTxs == [input : TxIns, output : TxOuts(Amounts, Scripts, MaxOuts)]
\* the spent output may be worth more than any single output of the payment
InputAmounts == 0 .. MaxAmt + 1
AuditPrevs == TxOuts(InputAmounts, {MinerScript}, MaxPrevOuts)

InitAudit ==
    /\ pc = "get_tx"
    /\ err = NoErr
    /\ calls = [k \in CallKinds |->
                  CASE k \in {"list_wallets", "get_new_address", "generate_to_address"} -> 2
                    [] k \in {"get_blockchain_info", "get_balance", "send_to_address",
                              "get_raw_mempool", "get_mempool_entry"} -> 1
                    [] OTHER -> 0]
    /\ wallets = WalletNames
    /\ height = 2
    /\ txBlock \in {0, 2}
    /\ mempool = IF txBlock = 0 THEN {TxId} ELSE {}
    /\ nodeTx \in AuditTxs
    /\ nodePrev \in AuditPrevs
    /\ miner_address = MinerAddress
    /\ blocks_mined = 1
    /\ balance = 1
    /\ trader_address = TraderAddress
    /\ txid = TxId
    /\ in_mempool = "Found"
    /\ raw = NoVal
    /\ prev_tx = NoVal
    /\ rec = NoVal
    /\ file = NoFile

NextAudit ==
    \/ AuditGetTx
    \/ AuditGetPrev
    \/ AuditGetBlock
    \/ CreateFile
    \/ WriteLine
    \/ OtherMiner

SpecAudit == InitAudit /\ [][NextAudit]_vars

\* ============================================================== properties
\* what the properties read off the audited transaction
RecordMade == rec # NoVal
AuditedOutputs == raw.tx.output
SpentOutput == prev_tx.vout[raw.tx.input[1].vout + 1]
PayeeOutputs == {i \in DOMAIN AuditedOutputs : AuditedOutputs[i].script_pubkey = TraderScript}
OtherOutputs == DOMAIN AuditedOutputs \ PayeeOutputs
RECURSIVE SumOver(_, _)
SumOver(output, idx) ==
    IF idx = {} THEN 0
    ELSE LET i == CHOOSE j \in idx : TRUE
         IN output[i].value + SumOver(output, idx \ {i})
OutputSum == SumOver(AuditedOutputs, DOMAIN AuditedOutputs)
Conserved ==
    rec.trader_output_amount + rec.miner_change_amount + rec.fee = rec.miner_input_amount

MaturationPcs == {"mature", "mature_balance"}
BeforeMaturation == {"blockchain_info", "ensure_Miner", "create_Miner", "ensure_Trader",
                     "create_Trader", "miner_address"}
MaturationStarted == pc \notin BeforeMaturation /\ err.stage \notin BeforeMaturation
MaturationSucceeded ==
    /\ MaturationStarted
    /\ pc \notin MaturationPcs
    /\ err.stage \notin MaturationPcs

MaturationBounded ==
    /\ blocks_mined <= max_blocks
    /\ pc \in MaturationPcs => calls["generate_to_address"] = blocks_mined
    /\ err.kind = "MaturationTimeout" => blocks_mined = max_blocks /\ pc = "failed"
    /\ (pc = "mature" /\ blocks_mined = max_blocks) =>
          ~ ENABLED (MatureMine /\ calls' # calls)
    /\ (MaturationStarted /\ pc \notin MaturationPcs) =>
          \/ MaturationSucceeded
          \/ err.kind \in {"MaturationTimeout", "Rpc"}

\* C2: maturation never mines more than max_blocks (150) blocks and always ends:
\* the counter stays within the ceiling, while maturing every block mined was
\* counted, the timeout is raised only with the ceiling reached, with the ceiling
\* reached no block can be mined, the loop is left in success, in the timeout or
\* in the error of a node call, and a maturation under way is eventually over.
C2_MaturationTerminates ==
    /\ []MaturationBounded
    /\ (pc \in MaturationPcs) ~> (pc \notin MaturationPcs)

C2_Witness ==
    /\ pc = "failed"
    /\ err.kind = "MaturationTimeout"
    /\ calls["generate_to_address"] = max_blocks
    /\ calls["get_balance"] = max_blocks

\* C3: maturation has succeeded only with a strictly positive balance observed
\* right after its last mined block (one observation per block), it loops again only
\* after a balance that was not positive, and once it has succeeded its block
\* counter never moves again.
C3_SuccessOnFirstPositive ==
    /\ [](MaturationSucceeded =>
            balance > 0 /\ calls["get_balance"] = blocks_mined /\ blocks_mined >= 1)
    /\ []((pc = "mature" /\ blocks_mined >= 1) =>
            balance = 0 /\ calls["get_balance"] = blocks_mined)
    /\ [][MaturationSucceeded => blocks_mined' = blocks_mined]_vars

C3_Witness ==
    /\ pc = "send"
    /\ blocks_mined = 3
    /\ balance > 0
    /\ calls["get_balance"] = 3

\* ---------------------------------------------------------------------------
TenFields == {"txid", "miner_input_address", "miner_input_amount", "trader_output_address",
              "trader_output_amount", "miner_change_address", "miner_change_amount", "fee",
              "block_height", "block_hash"}
\* every node call of a run has been issued and has returned Ok
NodeCallsDone ==
    /\ err.kind \notin {"Rpc", "Network", "Decode"}
    /\ calls["get_blockchain_info"] = 1
    /\ calls["list_wallets"] = 2
    /\ calls["get_new_address"] = 2
    /\ calls["generate_to_address"] = blocks_mined + 1
    /\ calls["get_balance"] = blocks_mined
    /\ calls["send_to_address"] = 1
    /\ calls["get_raw_mempool"] = 1
    /\ calls["get_raw_transaction_info"] = 1
    /\ calls["get_prev_transaction_info"] = 1
    /\ calls["get_block_info"] = 1
RecordComplete == RecordMade /\ DOMAIN rec = TenFields

C5_UnconfirmedRejected ==
    ( /\ pc = "failed"
      /\ raw # NoVal
      /\ raw.blockhash = NoVal
      /\ err.kind \notin {"Rpc", "Decode"} )
    => (err.kind = "Unconfirmed" /\ rec = NoVal /\ file = NoFile)

\* C6: once the fetched transaction is decoded with zero inputs the audit has failed
\* with the no-inputs error, no prior transaction was looked up and there is no
\* record and no file.
C6_NoInputsRejected ==
    ( /\ raw # NoVal
      /\ Len(raw.tx.input) = 0
      /\ err.kind # "Decode" )
    => /\ pc = "failed"
       /\ err = Error("NoInputs", "get_tx")
       /\ calls["get_prev_transaction_info"] = 0
       /\ prev_tx = NoVal
       /\ rec = NoVal
       /\ file = NoFile

C6_Witness ==
    /\ pc = "failed"
    /\ err.kind = "NoInputs"
    /\ raw.blockhash # NoVal
    /\ Len(raw.tx.input) = 0
    /\ Len(raw.tx.output) = 2

\* C7: the fee of a record is the first input's resolved amount minus the sum of
\* all outputs when that is not negative and zero otherwise, so it is never negative.
C7_FeeFloored ==
    RecordMade =>
        /\ rec.fee = IF SpentOutput.value - OutputSum >= 0
                     THEN SpentOutput.value - OutputSum ELSE 0
        /\ rec.fee >= 0
        /\ rec.miner_input_amount = SpentOutput.value

C7_Witness ==
    /\ RecordMade
    /\ SpentOutput.value < OutputSum
    /\ SpentOutput.value > 0
    /\ rec.fee = 0

\* ---------------------------------------------------------------------------
PayeeFields == <<rec.trader_output_address, rec.trader_output_amount>>
ChangeFields == <<rec.miner_change_address, rec.miner_change_amount>>
FieldsOf(i) == <<DebugFmt(AuditedOutputs[i].script_pubkey), AuditedOutputs[i].value>>
NoFields == <<EmptyString, 0>>

\* C8: the outputs fall into those whose script equals the payee's and the others;
\* the payee fields of a record are an output of the first kind (empty when there is
\* none), its change fields an output of the second kind (empty when there is
\* none), and with exactly two outputs of which exactly one has the payee's script
\* the payee fields are that output and the change fields the other one.
C8_ClassificationTotal ==
    RecordMade =>
        /\ IF PayeeOutputs = {} THEN PayeeFields = NoFields
           ELSE \E i \in PayeeOutputs : PayeeFields = FieldsOf(i)
        /\ IF OtherOutputs = {} THEN ChangeFields = NoFields
           ELSE \E i \in OtherOutputs : ChangeFields = FieldsOf(i)
        /\ (Len(AuditedOutputs) = 2 /\ Cardinality(PayeeOutputs) = 1) =>
              \A i \in PayeeOutputs, j \in OtherOutputs :
                  PayeeFields = FieldsOf(i) /\ ChangeFields = FieldsOf(j)

C8_Witness ==
    /\ RecordMade
    /\ Len(AuditedOutputs) = 2
    /\ PayeeOutputs = {2}
    /\ AuditedOutputs[1].value # AuditedOutputs[2].value
    /\ PayeeFields = FieldsOf(2)
    /\ ChangeFields = FieldsOf(1)

\* C9: with the payment absent from the mempool the mempool check can always be
\* passed: main has a step that takes it on to mining the confirming block.
C9_AbsenceIsSoft ==
    (pc \in {"mempool", "mempool_entry"} /\ txid \notin mempool)
    => ENABLED (Main /\ pc' = "confirm")

\* C10: an error is returned exactly in the failed state, and from the failed state
\* on main issues no node call and changes nothing of its own.
C10_FailFast ==
    /\ [](err # NoErr <=> pc = "failed")
    /\ [][pc = "failed" =>
            pc' = "failed" /\ err' = err /\ calls' = calls /\ localVars' = localVars]_vars

C10_Witness ==
    /\ pc = "failed"
    /\ err = Error("Rpc", "confirm")
    /\ calls["send_to_address"] = 1
    /\ TotalCalls(calls) = 2 * blocks_mined + 9

\* ---------------------------------------------------------------------------
PaymentPcs == {"mempool", "mempool_entry", "confirm"}
\* the confirming block was asked for and returned Ok
ConfirmMined == pc \notin PaymentPcs /\ err.stage \notin PaymentPcs /\ txid = TxId

\* C11: between the broadcast of the payment and the audit main mines exactly one
\* block: none while the mempool is looked at, one call of generate_to_address in
\* the confirmation stage whether or not its block took the payment, that call is
\* never repeated, and the stage hands over to the audit or fails on the call.
C11_OneConfirmingBlock ==
    /\ [](pc \in PaymentPcs => calls["generate_to_address"] = blocks_mined)
    /\ [](ConfirmMined => calls["generate_to_address"] = blocks_mined + 1)
    /\ [][pc = "confirm" => pc' \in {"confirm", "get_tx", "failed"}]_vars
    /\ [][pc \notin PaymentPcs /\ txid = TxId =>
            calls'["generate_to_address"] = calls["generate_to_address"]]_vars

C11_Witness ==
    /\ pc = "get_tx"
    /\ TxId \in mempool
    /\ txBlock = 0
    /\ calls["generate_to_address"] = blocks_mined + 1
    /\ blocks_mined = 2

\* ---------------------------------------------------------------------------
\* ensure_wallet_exists called twice in a row with one name, on a node with any
\* wallets loaded
EnsureNames == WalletNames \cup {"Savings"}
Returned(name) == "returned_" \o name

InitEnsure ==
    /\ pc \in {"ensure_" \o name : name \in EnsureNames}
    /\ err = NoErr
    /\ calls = [k \in CallKinds |-> 0]
    /\ wallets \in SUBSET EnsureNames
    /\ height = 0
    /\ mempool = {}
    /\ txBlock = 0
    /\ nodeTx = NoVal
    /\ nodePrev = <<>>
    /\ miner_address = "none"
    /\ blocks_mined = 0
    /\ balance = 0
    /\ trader_address = "none"
    /\ txid = "none"
    /\ in_mempool = "none"
    /\ raw = NoVal
    /\ prev_tx = NoVal
    /\ rec = NoVal
    /\ file = NoFile

\* the first call has returned Ok(()) and the caller calls again with the same name
EnsureAgain(name) ==
    /\ pc = Returned(name)
    /\ calls["list_wallets"] = 1
    /\ pc' = "ensure_" \o name
    /\ UNCHANGED <<err, calls, nodeVars, localVars>>

NextEnsure ==
    \E name \in EnsureNames :
        \/ EnsureList(name, Returned(name))
        \/ EnsureCreate(name, Returned(name))
        \/ EnsureAgain(name)

SpecEnsure == InitEnsure /\ [][NextEnsure]_vars

SecondCall == calls["list_wallets"] = 2 /\ err = NoErr

\* C12: of two calls of ensure in a row with one name the second finds the wallet
\* listed, issues no create_wallet and returns Ok; create_wallet is issued at most
\* once, by the first call, and the name is among the node's wallets from the first
\* return on.
C12_EnsureIdempotent ==
    /\ \A name \in EnsureNames :
          /\ pc = Returned(name) => name \in wallets /\ err = NoErr
          /\ (pc = "ensure_" \o name /\ calls["list_wallets"] = 1) => name \in wallets
    /\ SecondCall => \E name \in EnsureNames : pc = Returned(name)
    /\ calls["create_wallet"] <= 1
    /\ calls["list_wallets"] <= 2

C12_Witness ==
    /\ pc = Returned("Miner")
    /\ calls["list_wallets"] = 2
    /\ calls["create_wallet"] = 1
    /\ wallets = {"Miner", "Savings"}

\* ---------------------------------------------------------------------------
\* The reference node on a fresh chain with no other actor: a block reward is
\* spendable once CoinbaseMaturity blocks are on top of its block, so the wallet's
\* balance is positive from the block after that on, and a mined block takes the
\* pending payment.
RefNode ==
    /\ (pc = "mature_balance" /\ pc' # "failed") =>
          (balance' > 0 <=> height >= CoinbaseMaturity + 1)
    /\ (pc = "confirm" /\ pc' # "failed") => txBlock' = height'

NextRef == Main /\ RefNode

SpecRef == Init /\ [][NextRef]_vars

\* C13: on the reference node, from block count 0, maturation has succeeded only
\* with exactly CoinbaseMaturity + 1 blocks mined, the record's payee amount is 20
\* units to the satoshi, the confirming block is at height 0 + 102 and that is the
\* height of the record and the ninth line of out.txt.
C13_EndToEnd ==
    /\ MaturationSucceeded => blocks_mined = CoinbaseMaturity + 1
    /\ RecordMade =>
          /\ rec.trader_output_amount = PayBtc * COIN
          /\ txBlock = CoinbaseMaturity + 2
          /\ height = txBlock
    /\ RecordComplete => rec.block_height = CoinbaseMaturity + 2
    /\ pc = "done" => file.lines[9] = CoinbaseMaturity + 2

C13_Witness ==
    /\ pc = "done"
    /\ calls["generate_to_address"] = CoinbaseMaturity + 2
    /\ rec.trader_output_amount = PayBtc * COIN
    /\ rec.block_height = CoinbaseMaturity + 2
    /\ rec.fee > 0

\* ---------------------------------------------------------------------------
AmountLines == {3, 5, 7, 8}
FracDigits == 8

\* C14: every amount line written to out.txt (input amount, payee amount, change
\* amount, fee) has exactly eight digits after the decimal point, whole amounts
\* such as 20 included.
C14_EightFractionalDigits ==
    \A k \in AmountLines :
        k <= Len(file.lines) => Len(file.lines[k].frac) = FracDigits

\* ---------------------------------------------------------------------------
AuditLookups ==
    calls["get_raw_transaction_info"] + calls["get_prev_transaction_info"]
    + calls["get_block_info"]

\* C15: the stages run in order: send_to_address is called only once maturation
\* has succeeded on a strictly positive balance, a block beyond those of the
\* maturation is asked for only with the txid returned by the broadcast, and the audit
\* looks nothing up before the confirming block has been mined.
C15_StagesInOrder ==
    /\ calls["send_to_address"] >= 1 =>
          /\ MaturationSucceeded
          /\ balance > 0
          /\ calls["get_balance"] = blocks_mined
    /\ txid = TxId <=> (calls["send_to_address"] = 1 /\ err.stage # "send")
    /\ (calls["generate_to_address"] > blocks_mined /\ err.stage # "mature") =>
          /\ txid = TxId
          /\ calls["get_raw_mempool"] = 1
    /\ AuditLookups >= 1 =>
          /\ ConfirmMined
          /\ calls["generate_to_address"] = blocks_mined + 1
          /\ height >= blocks_mined + 1
    /\ file # NoFile => AuditLookups = 3

C15_Witness ==
    /\ pc = "get_block"
    /\ AuditLookups = 2
    /\ in_mempool = "Found"
    /\ blocks_mined = 2
    /\ height = blocks_mined + 1

\* ---------------------------------------------------------------------------
TimeoutRaised == MatureMine /\ err'.kind = "MaturationTimeout"
SuccessReported == MatureBalance /\ pc' = "trader_address"

\* C16: the maturation timeout is raised exactly at the loop's head with max_blocks
\* blocks mined, each followed by a balance that was not positive; at any smaller
\* count the loop mines on, and a positive balance seen right after block
\* max_blocks is the success, not the timeout.
C16_TimeoutExactlyAtCeiling ==
    /\ err.kind = "MaturationTimeout" =>
          /\ pc = "failed"
          /\ blocks_mined = max_blocks
          /\ calls["generate_to_address"] = max_blocks
          /\ calls["get_balance"] = max_blocks
          /\ balance = 0
    /\ pc = "mature" => (ENABLED TimeoutRaised <=> blocks_mined = max_blocks)
    /\ (pc = "mature_balance" /\ blocks_mined = max_blocks) =>
          /\ ENABLED SuccessReported
          /\ ~ ENABLED (MatureBalance /\ err'.kind = "MaturationTimeout")
    /\ (MaturationSucceeded /\ blocks_mined = max_blocks) =>
          balance > 0 /\ err.kind # "MaturationTimeout"

C16_Witness ==
    /\ pc = "trader_address"
    /\ blocks_mined = max_blocks
    /\ calls["get_balance"] = max_blocks
    /\ balance > 0

\* ---------------------------------------------------------------------------
\* C17: the audit tests the fetched transaction for its block hash right after the
\* first fetch: a transaction fetched without block hash is rejected as unconfirmed
\* at that fetch, before its inputs are counted and with no prior transaction
\* looked up.
C17_BlockHashCheckedFirst ==
    ( /\ raw # NoVal
      /\ raw.blockhash = NoVal
      /\ err.kind # "Decode" )
    => /\ pc = "failed"
       /\ err = Error("Unconfirmed", "get_tx")
       /\ calls["get_prev_transaction_info"] = 0
       /\ prev_tx = NoVal

\* ---------------------------------------------------------------------------
LastOf(idx) == CHOOSE i \in idx : \A j \in idx : j <= i

\* C18: with more than one output whose script is not the payee's, the change
\* address and the change amount of the record are those of the last such output
\* in the transaction's order; the amounts of the others are not added to it.
C18_LastChangeWins ==
    (RecordMade /\ Cardinality(OtherOutputs) > 1) =>
        /\ ChangeFields = FieldsOf(LastOf(OtherOutputs))
        /\ rec.miner_change_amount = AuditedOutputs[LastOf(OtherOutputs)].value
        /\ rec.miner_change_amount <= SumOver(AuditedOutputs, OtherOutputs)

C18_Witness ==
    /\ RecordMade
    /\ OtherOutputs = {1, 2}
    /\ AuditedOutputs[1].script_pubkey # AuditedOutputs[2].script_pubkey
    /\ AuditedOutputs[1].value > 0
    /\ ChangeFields = FieldsOf(2)
    /\ rec.miner_change_amount < SumOver(AuditedOutputs, OtherOutputs)

\* ---------------------------------------------------------------------------
\* C19: every balance observation of the maturation follows a block it mined, so
\* the first one follows the first block; a balance positive at that first
\* observation (funds the wallet held before) ends the maturation with exactly one
\* block mined, and a run that ends in success has mined at least two blocks, one or
\* more in the maturation and the confirming one.
C19_MinesBeforeObserving ==
    /\ calls["get_balance"] <= blocks_mined
    /\ blocks_mined <= calls["get_balance"] + 1
    /\ calls["get_balance"] >= 1 => calls["generate_to_address"] >= 1 /\ height >= 1
    /\ MaturationSucceeded => blocks_mined >= 1
    /\ (MaturationSucceeded /\ calls["get_balance"] = 1) => blocks_mined = 1
    /\ (pc = "mature_balance" /\ calls["get_balance"] = 0) =>
          blocks_mined = 1 /\ ENABLED SuccessReported
    /\ pc = "done" =>
          /\ calls["generate_to_address"] = blocks_mined + 1
          /\ calls["generate_to_address"] >= 2
          /\ height >= 2

C19_Witness ==
    /\ pc = "done"
    /\ blocks_mined = 1
    /\ calls["get_balance"] = 1
    /\ calls["generate_to_address"] = 2
    /\ height = 2

\* ---------------------------------------------------------------------------
\* the audit has fetched a confirmed transaction with a valid first reference
Auditable ==
    /\ pc = "get_prev"
    /\ raw.blockhash # NoVal
    /\ ~ InvalidReference(nodePrev, raw.tx.input[1].vout)

\* C20: a transaction without any output to the payee's script is not an error of
\* the audit: the step that makes the record is open to it as to any other, the
\* record has the empty payee address and the payee amount zero, and these are
\* what lines 4 and 5 of out.txt hold.
C20_NoPayeeOutputIsNoError ==
    /\ (Auditable /\ PayeeOutputs = {}) => ENABLED (AuditGetPrev /\ rec' # NoVal)
    /\ (RecordMade /\ PayeeOutputs = {}) =>
          /\ PayeeFields = NoFields
          /\ Len(file.lines) >= 4 => file.lines[4] = EmptyString
          /\ Len(file.lines) >= 5 => file.lines[5] = DisplayBtc(0)
    /\ (pc = "failed" /\ RecordMade) => err.kind \in {"Rpc", "Io"}

C20_Witness ==
    /\ pc = "done"
    /\ PayeeOutputs = {}
    /\ Len(AuditedOutputs) = 2
    /\ AuditedOutputs[1].value > 0
    /\ rec.trader_output_address = EmptyString
    /\ rec.trader_output_amount = 0
    /\ file.lines[4] = EmptyString

====
